---- MODULE Spec2Model ----
(***************************************************************************)
(* Usage normalization engine of oil_analysis                              *)
(* (backend/app/services/usage_normalization.py, UsageNormalizer) together *)
(* with the reading classifier it depends on                               *)
(* (backend/app/services/tank_service.py, TankService.detect_anomalies).   *)
(*                                                                         *)
(* Representation of the numbers:                                          *)
(*   - dates are integers, a timestamp is date * 24 + hour;                *)
(*   - tank levels of readings are whole gallons;                          *)
(*   - every derived gallon figure (drop, allocation, cap, DailyUsage      *)
(*     gallons) is a fixed-point integer in units of 1/GalUnit gallon;     *)
(*   - HDD is kept in units of 1/HddUnit degree, the k factor in units of  *)
(*     1/KUnit gallon per degree day;                                      *)
(*   - a division of the source is the nearest fixed-point value (RDiv).   *)
(***************************************************************************)
EXTENDS Integers, Sequences, FiniteSets, TLC

\* ---------------------------------------------------------------- bounds
\* number of recalculate_usage calls in one behaviour
MaxCalls == 2

\* number of locations the nightly job visits
NumLocations == 2

\* number of readings the gauge is polled for
MaxReadings == 4

\* the orders of a location
MaxOrders == 3

\* ------------------------------------------------------- number formats
GalUnit == 1000
HddUnit == 2
KUnit == 1000000

\* ------------------------------------------------------ program constants
BootstrapDays == 30
KFactorLookbackDays == 90
KFactorMinHdd == 50
KFactorMaxMicro == 400000
KFactorDefaultMicro == 150000
BaseLoadMilli == 500
SummerHddLimit == 5
SummerCapMilli == 2000
WinterCapMilli == 15000
TrustMinTotalMilli == 5000
MinDayReadings == 5
HighTankLevel == 230
FillRiseGallons == 20
NoiseMeanLevel == 225
CleanLookbackDays == 730
TailHours == 4
SmoothMinDays == 7
SmoothHalfWindow == 3
SpikeAbsMilli == 1500
SpikeMinMilli == 500
FillThreshold == 30
NoiseThreshold == 2
StabilityWindow == 48
TankCapacity == 275
JobDays == 45
ContextHours == 48

VARIABLES
    today,      \* date.today()
    orders,     \* OilOrder rows of the location: start_date -> gallons
    temps,      \* Temperature rows of the location: date -> record or NoTemp
    readings,   \* TankReading rows of the location, in timestamp order
    usage,      \* DailyUsage rows of the location, in insertion order
    autoflush,  \* whether the session flushes pending rows before a query
    calls,      \* number of recalculate_usage calls so far
    last,       \* what the latest recalculate_usage call did
    tables,     \* committed DailyUsage rows of each location the job visits
    sessions    \* the database session of each caller of recalculate_usage

vars == <<today, orders, temps, readings, usage, autoflush, calls, last,
          tables, sessions>>

\* ------------------------------------------------------------- arithmetic
Max(a, b) == IF a >= b THEN a ELSE b
Min(a, b) == IF a <= b THEN a ELSE b
Abs(a) == IF a >= 0 THEN a ELSE 0 - a

\* a / b to the nearest unit (b > 0, a >= 0)
RDiv(a, b) == (a + b \div 2) \div b

RECURSIVE SumSeq(_)
SumSeq(s) == IF s = <<>> THEN 0 ELSE Head(s) + SumSeq(Tail(s))

\* a list given by comprehension, as an explicit sequence
List(f) == SubSeq(f, 1, Len(f))

\* the k-th smallest element of a non-empty sequence (1 <= k <= Len(s))
KthSmallest(s, k) ==
    LET v == CHOOSE x \in { s[i] : i \in 1..Len(s) } :
                 /\ Cardinality({ i \in 1..Len(s) : s[i] < x }) < k
                 /\ Cardinality({ i \in 1..Len(s) : s[i] <= x }) >= k
    IN v

\* twice np.median: the middle element, or the mean of the two middle ones
Median2(s) ==
    LET n == Len(s)
    IN IF n % 2 = 1 THEN 2 * KthSmallest(s, (n + 1) \div 2)
       ELSE KthSmallest(s, n \div 2) + KthSmallest(s, n \div 2 + 1)

\* np.median of tank levels (whole gallons in 1/GalUnit: the half is exact)
Median(s) == Median2(s) \div 2

\* np.percentile(vals, q), linear interpolation between order statistics
Percentile(s, q) ==
    LET n   == Len(s)
        pos == q * (n - 1)
        lo  == pos \div 100
        fr  == pos % 100
        a   == KthSmallest(s, lo + 1)
        b   == IF lo + 2 <= n THEN KthSmallest(s, lo + 2) ELSE a
    IN a + (fr * (b - a)) \div 100

\* np.std(vals) > 1.0 for whole-gallon levels: n * sum(x^2) - sum(x)^2 > n^2
StdAboveOne(s) ==
    LET n  == Len(s)
        s1 == SumSeq(s)
        s2 == SumSeq([i \in 1..n |-> s[i] * s[i]])
    IN n * s2 - s1 * s1 > n * n

\* --------------------------------------------------------------- readings
\* no fill event is being tracked (fill_event_time = None)
NoFill == [on |-> FALSE, at |-> 0]

\* detect_anomalies taking a rise of exactly the threshold for a fill
ReadingFlagsFillAtThreshold(raw, i, fillTime) ==
    LET delta    == IF i > 1 THEN raw[i].gallons - raw[i - 1].gallons ELSE 0
        isFill   == i > 1 /\ delta >= FillThreshold
        isNoise  == i > 1 /\ ~isFill /\ delta > 0 /\ delta <= NoiseThreshold
        tracked  == IF isFill THEN [on |-> TRUE, at |-> raw[i].ts] ELSE fillTime
        hours    == IF tracked.on THEN raw[i].ts - tracked.at ELSE 0
        unstable == /\ i > 1
                    /\ tracked.on
                    /\ hours < StabilityWindow
                    /\ 100 * raw[i].gallons > 85 * TankCapacity
                    /\ Abs(delta) > 1
        nextFill == IF i > 1 /\ tracked.on /\ hours >= StabilityWindow
                    THEN NoFill ELSE tracked
    IN [ts |-> raw[i].ts, gallons |-> raw[i].gallons,
        is_anomaly |-> isNoise, is_fill_event |-> isFill,
        is_post_fill_unstable |-> unstable, fill |-> nextFill]

\* detect_anomalies keeping the reading at the end of the window unstable
ReadingFlagsWindowInclusive(raw, i, fillTime) ==
    LET delta    == IF i > 1 THEN raw[i].gallons - raw[i - 1].gallons ELSE 0
        isFill   == i > 1 /\ delta > FillThreshold
        isNoise  == i > 1 /\ ~isFill /\ delta > 0 /\ delta <= NoiseThreshold
        tracked  == IF isFill THEN [on |-> TRUE, at |-> raw[i].ts] ELSE fillTime
        hours    == IF tracked.on THEN raw[i].ts - tracked.at ELSE 0
        unstable == /\ i > 1
                    /\ tracked.on
                    /\ hours <= StabilityWindow
                    /\ 100 * raw[i].gallons > 85 * TankCapacity
                    /\ Abs(delta) > 1
        nextFill == IF i > 1 /\ tracked.on /\ hours > StabilityWindow
                    THEN NoFill ELSE tracked
    IN [ts |-> raw[i].ts, gallons |-> raw[i].gallons,
        is_anomaly |-> isNoise, is_fill_event |-> isFill,
        is_post_fill_unstable |-> unstable, fill |-> nextFill]

\* TankService.detect_anomalies: flags of reading i, given the time of the
\* fill event being tracked when reading i is reached
ReadingFlags(raw, i, fillTime) ==
    LET delta    == IF i > 1 THEN raw[i].gallons - raw[i - 1].gallons ELSE 0
        isFill   == i > 1 /\ delta > FillThreshold
        isNoise  == i > 1 /\ ~isFill /\ delta > 0 /\ delta <= NoiseThreshold
        tracked  == IF isFill THEN [on |-> TRUE, at |-> raw[i].ts] ELSE fillTime
        hours    == IF tracked.on THEN raw[i].ts - tracked.at ELSE 0
        unstable == /\ i > 1
                    /\ tracked.on
                    /\ hours < StabilityWindow
                    /\ 100 * raw[i].gallons > 85 * TankCapacity
                    /\ Abs(delta) > 1
        nextFill == IF i > 1 /\ tracked.on /\ hours >= StabilityWindow
                    THEN NoFill ELSE tracked
    IN [ts |-> raw[i].ts, gallons |-> raw[i].gallons,
        is_anomaly |-> isNoise, is_fill_event |-> isFill,
        is_post_fill_unstable |-> unstable, fill |-> nextFill]

RECURSIVE DetectFrom(_, _, _)
DetectFrom(raw, i, fillTime) ==
    IF i > Len(raw) THEN <<>>
    ELSE LET f == ReadingFlags(raw, i, fillTime)
         IN <<[ts |-> f.ts, gallons |-> f.gallons, is_anomaly |-> f.is_anomaly,
               is_fill_event |-> f.is_fill_event,
               is_post_fill_unstable |-> f.is_post_fill_unstable]>>
            \o DetectFrom(raw, i + 1, f.fill)

\* TankService.detect_anomalies over readings already in timestamp order
DetectAnomalies(raw) == DetectFrom(raw, 1, NoFill)

DateOf(ts) == ts \div 24

\* the subsequence of s at the indices in keep, in order
RECURSIVE PickIdx(_, _, _)
PickIdx(s, keep, i) ==
    IF i > Len(s) THEN <<>>
    ELSE (IF i \in keep THEN <<s[i]>> ELSE <<>>) \o PickIdx(s, keep, i + 1)

Filter(s, keep) == PickIdx(s, keep, 1)

Levels(rs) == List([i \in 1..Len(rs) |-> rs[i].gallons])

Scaled(vals) == List([i \in 1..Len(vals) |-> vals[i] * GalUnit])

\* the noise test taking a mean of exactly 225 gallons for high
IsNoiseAtMeanLevel(vals) ==
    /\ Len(vals) > 3
    /\ SumSeq(vals) >= NoiseMeanLevel * Len(vals)
    /\ StdAboveOne(vals)

\* _clean_sensor_data, lines 111-120: whether levels of a day are noise
IsNoise(vals) ==
    /\ Len(vals) > 3
    /\ SumSeq(vals) > NoiseMeanLevel * Len(vals)
    /\ StdAboveOne(vals)

\* UsageNormalizer._clean_sensor_data: whether the day's unflagged readings
\* are high-level noise
IsNoisyDay(rd, day) ==
    IsNoise(Levels(Filter(rd, { i \in 1..Len(rd) :
                                  DateOf(rd[i].ts) = day /\ ~rd[i].is_anomaly })))

\* UsageNormalizer._clean_sensor_data(location_id, start_date), with
\* hasStart = FALSE for start_date = None
CleanSensorData(rd, hasStart, start, now) ==
    LET queryStart == IF hasStart THEN start ELSE now - CleanLookbackDays
        noisy == { d \in { DateOf(rd[i].ts) : i \in 1..Len(rd) } :
                     d >= queryStart /\ d <= now /\ IsNoisyDay(rd, d) }
    IN List([i \in 1..Len(rd) |->
          IF DateOf(rd[i].ts) \in noisy /\ ~rd[i].is_anomaly
          THEN [rd[i] EXCEPT !.is_anomaly = TRUE] ELSE rd[i]])

\* _get_daily_sensor_drop, lines 338-368: the summary of the levels of the
\* day's own readings, at least MinDayReadings of them, in 1/GalUnit gallon
SummarizeLevels(vals) ==
    LET n == Len(vals)
        k == Max(1, (n * 20) \div 100)
        startLevel == Median(SubSeq(vals, 1, k))
        endLevel   == Median(SubSeq(vals, n - k + 1, n))
    IN IF startLevel > HighTankLevel * GalUnit
       THEN [drop |-> 0, unreliable |-> TRUE, note |-> "high_tank"]
       ELSE IF endLevel > startLevel + FillRiseGallons * GalUnit
            THEN [drop |-> 0 - GalUnit, unreliable |-> FALSE, note |-> "fill_event"]
       ELSE IF 2 * endLevel > 2 * startLevel + GalUnit
            THEN [drop |-> 0, unreliable |-> TRUE, note |-> "sensor_drift"]
       ELSE [drop |-> Max(0, Percentile(vals, 95) - Percentile(vals, 5)),
             unreliable |-> FALSE, note |-> "p95_p05"]

\* _get_daily_sensor_drop, lines 330-336: rs are the readings the query
\* returns, vals the levels of those of the day itself
SummarizeDay(rs, vals) ==
    IF rs = <<>> THEN [drop |-> 0, unreliable |-> TRUE, note |-> "no_readings"]
    ELSE IF Len(vals) < MinDayReadings
         THEN [drop |-> 0, unreliable |-> FALSE, note |-> "insufficient"]
    ELSE SummarizeLevels(vals)

\* the levels, in 1/GalUnit gallon, of the readings of rs taken on the day
OwnLevels(rs, day) ==
    Scaled(Levels(Filter(rs, { i \in 1..Len(rs) : DateOf(rs[i].ts) = day })))

\* the readings of the day and of the first hours of the next one that are
\* neither anomalies nor fill events
DayWindow(rd, day) ==
    Filter(rd, { i \in 1..Len(rd) : /\ rd[i].ts >= day * 24
                                    /\ rd[i].ts < (day + 1) * 24 + TailHours
                                    /\ ~rd[i].is_anomaly
                                    /\ ~rd[i].is_fill_event })

SummarizeWindow(rs, day) == SummarizeDay(rs, OwnLevels(rs, day))

\* UsageNormalizer._get_daily_sensor_drop: (drop, is_unreliable, kind of note)
\* drop is in 1/GalUnit gallon, -GalUnit being the fill sentinel -1.0
GetDailySensorDrop(rd, day) == SummarizeWindow(DayWindow(rd, day), day)

\* ------------------------------------------------------------ temperature
NoTemp == [present |-> FALSE, high |-> 0, low |-> 0]

\* _distribute_usage: HDD of a day, in 1/HddUnit degree
HddClosed(t) ==
    IF t.present THEN Max(0, 65 * HddUnit - (t.high + t.low)) ELSE 0

\* _process_open_ended_period: HDD of a day; a temperature of 0 is falsy
HddOpen(t) ==
    IF t.present /\ t.high # 0 /\ t.low # 0
    THEN Max(0, 65 * HddUnit - (t.high + t.low)) ELSE 0


TempOf(tp, d) == IF d \in DOMAIN tp THEN tp[d] ELSE NoTemp

\* -------------------------------------------------------------- k factor
NoReason == "none"

\* UsageNormalizer._get_k_factor over the DailyUsage rows the session sees,
\* in 1/KUnit gallon per degree day
GetKFactor(rows, now) ==
    LET sel  == Filter(rows, { i \in 1..Len(rows) :
                                 /\ rows[i].date >= now - KFactorLookbackDays
                                 /\ rows[i].source # "hdd_estimated"
                                 /\ rows[i].gallons > 0 })
        sumG == SumSeq([i \in 1..Len(sel) |-> sel[i].gallons])
        sumH == SumSeq([i \in 1..Len(sel) |-> sel[i].hdd])
    IN IF sumG # 0 /\ sumH # 0 /\ sumH > KFactorMinHdd * HddUnit
       THEN Min(RDiv(sumG * HddUnit * (KUnit \div GalUnit), sumH), KFactorMaxMicro)
       ELSE KFactorDefaultMicro

\* (hdd * k_factor) + 0.5, in 1/GalUnit gallon
HddEstimate(hdd, k) == RDiv(hdd * k, HddUnit * (KUnit \div GalUnit)) + BaseLoadMilli

\* the summer cap of 3.0 that the comment of the capping step announces
DailyCapSummerThree(hdd) ==
    IF hdd < SummerHddLimit * HddUnit THEN 3 * GalUnit ELSE WinterCapMilli

\* _distribute_usage, lines 242-245: the daily cap of a day of the given HDD
DailyCap(hdd) == IF hdd < SummerHddLimit * HddUnit THEN SummerCapMilli ELSE WinterCapMilli

\* ------------------------------------------------------- spike smoothing
\* the values of the +-3 day window around day i, day i excluded
Neighbors(values, i) ==
    LET lo == Max(1, i - SmoothHalfWindow)
        hi == Min(Len(values), i + SmoothHalfWindow)
    IN SubSeq(values, lo, i - 1) \o SubSeq(values, i + 1, hi)

IsSpike(values, i) ==
    LET med2 == Median2(Neighbors(values, i))
    IN /\ 2 * values[i] > Max(2 * med2, med2 + 2 * SpikeAbsMilli)
       /\ values[i] > SpikeMinMilli

\* the smoothing done in place, day after day: the window of a day holds the
\* values already smoothed of the days before it
RECURSIVE SmoothFrom(_, _)
SmoothFrom(allocs, i) ==
    IF i > Len(allocs) THEN allocs
    ELSE LET values == List([j \in 1..Len(allocs) |-> allocs[j].gallons])
         IN SmoothFrom(
                IF IsSpike(values, i)
                THEN [allocs EXCEPT ![i] =
                        [@ EXCEPT !.gallons = RDiv(SumSeq(Neighbors(values, i)),
                                                   Len(Neighbors(values, i))),
                                  !.spike_smoothed = TRUE,
                                  !.adjustment_reason =
                                      IF @ = NoReason THEN "spike_smoothed" ELSE @]]
                ELSE allocs,
                i + 1)

SmoothContextualSpikesInPlace(allocs) ==
    IF Len(allocs) < SmoothMinDays THEN allocs ELSE SmoothFrom(allocs, 1)

\* UsageNormalizer._smooth_contextual_spikes on rows with fields gallons and
\* adjustment_reason; the window is read from the values before smoothing
SmoothContextualSpikes(allocs) ==
    LET n      == Len(allocs)
        values == List([i \in 1..n |-> allocs[i].gallons])
    IN IF n < SmoothMinDays THEN allocs
       ELSE List([i \in 1..n |->
               IF IsSpike(values, i)
               THEN [allocs[i] EXCEPT
                       !.gallons = RDiv(SumSeq(Neighbors(values, i)),
                                        Len(Neighbors(values, i))),
                       !.spike_smoothed = TRUE,
                       !.adjustment_reason =
                           IF allocs[i].adjustment_reason = NoReason
                           THEN "spike_smoothed" ELSE allocs[i].adjustment_reason]
               ELSE allocs[i]])

\* ------------------------------------------------------ closed intervals
\* _distribute_usage, lines 162-189: the statistics of a day of the given
\* HDD whose sensor summary is s
DayStatOf(day, hdd, s, k) ==
    [date |-> day, hdd |-> hdd,
     sensor |-> IF s.unreliable THEN HddEstimate(hdd, k)
                ELSE IF s.drop < 0 THEN 0 ELSE s.drop,
     raw_sensor |-> s.drop,
     is_unreliable |-> s.unreliable,
     adjustment_reason |-> IF s.unreliable THEN "high_tank_noise"
                           ELSE IF s.drop < 0 THEN "fill_event" ELSE NoReason]

\* _distribute_usage, lines 146-189: the statistics of one day
DayStat(rd, tp, day, k) ==
    DayStatOf(day, HddClosed(TempOf(tp, day)), GetDailySensorDrop(rd, day), k)

\* _distribute_usage, lines 146-189: the statistics of the days of [start, end)
DailyStats(rd, tp, start, end, k) ==
    List([i \in 1..Max(end - start, 0) |-> DayStat(rd, tp, start + i - 1, k)])

\* the confidence check without the lower bound of the trust band
UseSensorNoLowerBound(total, target) ==
    /\ target > 0
    /\ 2 * total < 3 * target
    /\ total > TrustMinTotalMilli

\* _distribute_usage, lines 193-195: the confidence check
UseSensor(total, target) ==
    /\ target > 0
    /\ 2 * total > target
    /\ 2 * total < 3 * target
    /\ total > TrustMinTotalMilli

\* _distribute_usage, lines 207-212: the estimated load of each day
DailyEstimates(stats, k) ==
    List([j \in 1..Len(stats) |-> HddEstimate(stats[j].hdd, k)])

\* the allocation shaped by the sensor drops under either strategy
AllocationSensorShape(stats, loads, totalLoad, i, use, total, target) ==
    IF total > 0 THEN RDiv(stats[i].sensor * target, total) ELSE 0

\* _distribute_usage, lines 214-225: the allocation of day i before capping,
\* totalLoad being the sum of the estimated loads
Allocation(stats, loads, totalLoad, i, use, total, target) ==
    IF use
    THEN (IF total > 0 THEN RDiv(stats[i].sensor * target, total) ELSE 0)
    ELSE (IF totalLoad > 0 THEN RDiv(loads[i] * target, totalLoad)
          ELSE RDiv(target, Len(stats)))

\* _distribute_usage, lines 237-266: cap each day and spread the excess
CapAndRedistribute(allocs) ==
    LET n      == Len(allocs)
        capped == { i \in 1..n : allocs[i].gallons > DailyCap(allocs[i].hdd) }
        excess == SumSeq([i \in 1..n |->
                     IF i \in capped THEN allocs[i].gallons - DailyCap(allocs[i].hdd)
                     ELSE 0])
        free   == n - Cardinality(capped)
        fill   == IF excess > 0 /\ free > 0 THEN RDiv(excess, free) ELSE 0
    IN List([i \in 1..n |->
          IF i \in capped
          THEN [allocs[i] EXCEPT
                  !.gallons = DailyCap(allocs[i].hdd),
                  !.is_capped = TRUE,
                  !.adjustment_reason =
                      IF allocs[i].adjustment_reason = NoReason
                      THEN "seasonal_cap" ELSE allocs[i].adjustment_reason]
          ELSE [allocs[i] EXCEPT !.gallons = allocs[i].gallons + fill]])

\* the row of an allocation, every source but the raw sensor being estimated
UsageRowEstimatedUnlessRaw(a) ==
    [date |-> a.date, gallons |-> a.gallons,
     is_estimated |-> (a.source # "sensor_raw"),
     source |-> a.source, hdd |-> a.hdd, raw_sensor_value |-> a.raw_sensor,
     adjustment_reason |-> a.adjustment_reason]

\* the DailyUsage row persisted for an allocation
UsageRow(a) ==
    [date |-> a.date, gallons |-> a.gallons, is_estimated |-> a.is_estimated,
     source |-> a.source, hdd |-> a.hdd, raw_sensor_value |-> a.raw_sensor,
     adjustment_reason |-> a.adjustment_reason]

\* _distribute_usage, lines 207-231: the allocations before capping
Allocations(stats, loads, use, total, target) ==
    LET totalLoad == SumSeq(loads)
        source    == IF use THEN "sensor_adjusted" ELSE "hdd_estimated"
    IN List([i \in 1..Len(stats) |->
          [date |-> stats[i].date,
           gallons |-> Allocation(stats, loads, totalLoad, i, use, total, target),
           source |-> source,
           is_estimated |-> (source # "sensor_adjusted"),
           hdd |-> stats[i].hdd,
           raw_sensor |-> stats[i].raw_sensor,
           adjustment_reason |-> stats[i].adjustment_reason,
           is_capped |-> FALSE,
           spike_smoothed |-> FALSE]])

\* _distribute_usage, lines 269-291: what the call reports and the rows it
\* adds, capped being the allocations after capping and redistribution and
\* final those after smoothing
Distributed(start, end, target, k, use, total, stats, allocs, capped, final) ==
    [start |-> start, end |-> end, target |-> target, k |-> k,
     use_sensor |-> use, total |-> total, stats |-> stats,
     pre_cap |-> List([i \in 1..Len(allocs) |-> allocs[i].gallons]),
     post_cap |-> List([i \in 1..Len(capped) |-> capped[i].gallons]),
     capped |-> { i \in 1..Len(capped) : capped[i].is_capped },
     allocs |-> final,
     rows |-> List([i \in 1..Len(final) |-> UsageRow(final[i])])]

\* _distribute_usage, lines 266-291, from the allocations after capping
DistributeCapped(start, end, target, k, use, total, stats, allocs, capped) ==
    Distributed(start, end, target, k, use, total, stats, allocs, capped,
                SmoothContextualSpikes(capped))

\* _distribute_usage, lines 237-291, from the allocations before capping
DistributeAllocations(start, end, target, k, use, total, stats, allocs) ==
    DistributeCapped(start, end, target, k, use, total, stats, allocs,
                     CapAndRedistribute(allocs))

\* _distribute_usage, lines 191-291, from the statistics of the days
DistributeStats(start, end, target, k, stats, total) ==
    DistributeAllocations(start, end, target, k, UseSensor(total, target), total,
                          stats,
                          Allocations(stats, DailyEstimates(stats, k),
                                      UseSensor(total, target), total, target))

\* _distribute_usage, lines 146-291, with the k factor of the location
DistributeWithK(rd, tp, start, end, target, k, stats) ==
    DistributeStats(start, end, target, k, stats,
                    SumSeq([i \in 1..Len(stats) |-> stats[i].sensor]))

\* UsageNormalizer._distribute_usage(location_id, start_date, end_date,
\* target_gallons), seen the DailyUsage rows `seen`: what it computes and
\* the rows it adds
DistributeUsage(seen, rd, tp, now, start, end, target) ==
    DistributeWithK(rd, tp, start, end, target, GetKFactor(seen, now),
                    DailyStats(rd, tp, start, end, GetKFactor(seen, now)))

\* --------------------------------------------------------- open interval
\* the open period without the daily cap
OpenDayOfUncapped(day, hdd, s, k) ==
    [date |-> day,
     gallons |-> IF s.unreliable THEN HddEstimate(hdd, k)
                 ELSE IF s.drop < 0 THEN 0 ELSE s.drop,
     hdd |-> hdd,
     is_estimated |-> s.unreliable,
     source |-> IF s.unreliable THEN "hdd_estimated" ELSE "sensor_raw",
     raw_sensor |-> s.drop,
     adjustment_reason |-> IF s.unreliable THEN "high_tank_noise"
                           ELSE IF s.drop < 0 THEN "fill_event" ELSE NoReason,
     is_capped |-> FALSE,
     spike_smoothed |-> FALSE,
     k |-> k]

\* _process_open_ended_period, lines 447-499: the allocation of a day of
\* the given HDD whose sensor summary is s
OpenDayOf(day, hdd, s, k) ==
    LET d2   == IF s.unreliable THEN HddEstimate(hdd, k)
                ELSE IF s.drop < 0 THEN 0 ELSE s.drop
        over == d2 > DailyCap(hdd)
    IN [date |-> day,
        gallons |-> IF over THEN DailyCap(hdd) ELSE d2,
        hdd |-> hdd,
        is_estimated |-> s.unreliable,
        source |-> IF s.unreliable THEN "hdd_estimated" ELSE "sensor_raw",
        raw_sensor |-> s.drop,
        adjustment_reason |-> IF over THEN "seasonal_cap"
                              ELSE IF s.unreliable THEN "high_tank_noise"
                              ELSE IF s.drop < 0 THEN "fill_event" ELSE NoReason,
        is_capped |-> over,
        spike_smoothed |-> FALSE,
        k |-> k]

\* _process_open_ended_period, lines 447-499: the allocation of one day
OpenDay(seen, rd, tp, now, day) ==
    OpenDayOf(day, HddOpen(TempOf(tp, day)), GetDailySensorDrop(rd, day),
              GetKFactor(seen, now))

\* _process_open_ended_period, lines 501-517: the rows of the allocations
OpenPeriod(start, final) ==
    [start |-> start, allocs |-> final,
     rows |-> List([i \in 1..Len(final) |-> UsageRow(final[i])])]

\* the open period running through today
ProcessOpenEndedPeriodThroughToday(seen, rd, tp, now, start) ==
    OpenPeriod(start,
               SmoothContextualSpikes(
                   List([i \in 1..(IF start > now THEN 0 ELSE now - start + 1) |->
                           OpenDay(seen, rd, tp, now, start + i - 1)])))

\* UsageNormalizer._process_open_ended_period(location_id, start_date)
ProcessOpenEndedPeriod(seen, rd, tp, now, start) ==
    OpenPeriod(start,
               SmoothContextualSpikes(
                   List([i \in 1..(IF start >= now THEN 0 ELSE now - start) |->
                           OpenDay(seen, rd, tp, now, start + i - 1)])))

\* UsageNormalizer._process_raw_sensor_only: the body is `pass`
ProcessRawSensorOnly(seen) == <<>>


\* ------------------------------------------------------- recalculation
\* the order rows sorted by start_date (start dates are pairwise distinct)
RECURSIVE SortedOrders(_)
SortedOrders(os) ==
    IF os = {} THEN <<>>
    ELSE LET first == CHOOSE o \in os : \A p \in os : o.start_date <= p.start_date
         IN <<first>> \o SortedOrders(os \ {first})

\* what the walk has done once it has distributed the interval d
Walked(walk, d) ==
    [added |-> walk.added \o d.rows, intervals |-> Append(walk.intervals, d)]

\* recalculate_usage, lines 56-75: the walk over the sorted orders from the
\* i-th on; `kept` are the rows left by the delete, `walk` what the walk has
\* done so far (the rows added, the intervals distributed)
RECURSIVE WalkOrders(_, _, _, _, _, _, _, _, _)
WalkOrders(sorted, i, kept, walk, rd, tp, now, hasLimit, limit) ==
    IF i > Len(sorted) THEN walk
    ELSE IF hasLimit /\ sorted[i].start_date < limit
         THEN WalkOrders(sorted, i + 1, kept, walk, rd, tp, now, hasLimit, limit)
         ELSE WalkOrders(sorted, i + 1, kept,
                  Walked(walk,
                         DistributeUsage(
                             IF autoflush THEN kept \o walk.added ELSE kept,
                             rd, tp, now,
                             IF i = 1 THEN sorted[i].start_date - BootstrapDays
                             ELSE sorted[i - 1].start_date,
                             sorted[i].start_date, sorted[i].gallons)),
                  rd, tp, now, hasLimit, limit)

\* recalculate_usage, lines 78-88: the open period after the walk, and commit
AfterWalk(days, hasLimit, limit, rd, kept, walk, open) ==
    [readings |-> rd, usage |-> kept \o walk.added \o open.rows,
     intervals |-> walk.intervals, open |-> open.allocs, kept |-> kept,
     has_limit |-> hasLimit, limit |-> limit, days |-> days,
     no_orders |-> FALSE]

\* recalculate_usage, lines 40-86, the orders of the location being `sorted`
WithOrders(days, hasLimit, limit, rd, kept, sorted, walk) ==
    IF sorted = <<>>
    THEN [readings |-> rd, usage |-> kept \o ProcessRawSensorOnly(kept),
          intervals |-> <<>>, open |-> <<>>, kept |-> kept,
          has_limit |-> hasLimit, limit |-> limit, days |-> days,
          no_orders |-> TRUE]
    ELSE AfterWalk(days, hasLimit, limit, rd, kept, walk,
                   ProcessOpenEndedPeriod(
                       IF autoflush THEN kept \o walk.added ELSE kept,
                       rd, temps, today, sorted[Len(sorted)].start_date))

\* recalculate_usage, lines 28-86, after the cleaning and the delete
AfterDelete(days, hasLimit, limit, rd, kept, sorted) ==
    WithOrders(days, hasLimit, limit, rd, kept, sorted,
               WalkOrders(sorted, 1, kept, [added |-> <<>>, intervals |-> <<>>],
                          rd, temps, today, hasLimit, limit))

\* UsageNormalizer.recalculate_usage(location_id, days); days = 0 stands for
\* None as well (`if days:`)
Recalculation(days) ==
    AfterDelete(days, days # 0, today - days,
                CleanSensorData(readings, days # 0, today - days, today),
                IF days # 0
                THEN Filter(usage, { i \in 1..Len(usage) : usage[i].date < today - days })
                ELSE <<>>,
                SortedOrders(orders))

RecalculateUsage(days) ==
    /\ calls < MaxCalls
    /\ \E r \in {Recalculation(days)} :
          /\ readings' = r.readings
          /\ usage' = r.usage
          /\ last' = [called |-> TRUE, days |-> r.days, has_limit |-> r.has_limit,
                      limit |-> r.limit, kept |-> r.kept, intervals |-> r.intervals,
                      open |-> r.open, no_orders |-> r.no_orders, before |-> usage,
                      repeat |-> (last.called /\ last.days = days)]
    /\ calls' = calls + 1
    /\ UNCHANGED <<today, orders, temps, autoflush, tables, sessions>>

\* ----------------------------------------------------------- the stores
\* the days (relative to today = 0) whose readings and temperature vary, the
\* start dates and gallons of the orders, the days=N windows of the calls
VarDays == {0 - 2, 0 - 1}
OrderDates == {0 - 1, 0}
OrderGallons == {12 * GalUnit, 24 * GalUnit, 60 * GalUnit}
Windows == {0, 1, 2}

Warm == [present |-> TRUE, high |-> 70, low |-> 60]
Cold == [present |-> TRUE, high |-> 20, low |-> 8]

\* the readings and the temperature of one day
DayKinds ==
    { [levels |-> <<>>, temp |-> NoTemp],
      [levels |-> <<120, 119, 118, 117, 116>>, temp |-> Warm],
      [levels |-> <<100, 95, 90, 85, 80>>, temp |-> Cold],
      [levels |-> <<100, 100, 115, 130, 130>>, temp |-> Cold],
      [levels |-> <<240, 238, 236, 234, 232>>, temp |-> Cold] }

\* the orders of the locations of the job
JobOrderSets ==
    { {}, {[start_date |-> 0, gallons |-> 24 * GalUnit]},
      {[start_date |-> 0 - 1, gallons |-> 12 * GalUnit],
       [start_date |-> 0, gallons |-> 24 * GalUnit]} }

\* the days of the locations of the job
JobDayKinds ==
    { [levels |-> <<>>, temp |-> NoTemp],
      [levels |-> <<100, 95, 90, 85, 80>>, temp |-> Cold] }

\* the readings of a day are taken every three hours from 06:00
RawOfDay(d, levels) ==
    [i \in 1..Len(levels) |-> [ts |-> d * 24 + 3 + 3 * i, gallons |-> levels[i]]]

RECURSIVE RawFrom(_, _)
RawFrom(kinds, d) ==
    IF d \notin DOMAIN kinds THEN <<>>
    ELSE RawOfDay(d, kinds[d].levels) \o RawFrom(kinds, d + 1)

\* orders of pairwise distinct start dates
OrderSets ==
    { os \in SUBSET [start_date : OrderDates, gallons : OrderGallons] :
        \A o, p \in os : o.start_date = p.start_date => o = p }

NoCall ==
    [called |-> FALSE, days |-> 0, has_limit |-> FALSE, limit |-> 0, kept |-> <<>>,
     intervals |-> <<>>, open |-> <<>>, no_orders |-> FALSE, before |-> <<>>,
     repeat |-> FALSE]

Init ==
    /\ today = 0
    /\ orders \in OrderSets
    /\ \E kinds \in [VarDays -> DayKinds] :
          /\ temps = [d \in VarDays |-> kinds[d].temp]
          /\ readings = DetectAnomalies(RawFrom(kinds, 0 - Cardinality(VarDays)))
    /\ usage = <<>>
    /\ autoflush \in BOOLEAN
    /\ calls = 0
    /\ last = NoCall
    /\ tables = <<>>
    /\ sessions = <<>>

Next == \E days \in Windows : RecalculateUsage(days)

Spec == Init /\ [][Next]_vars


\* ---------------------------------------------------- sessions and the job
\* the locations the nightly job visits; all of them have the orders, the
\* readings and the temperatures of the stores above
Locations == 1..NumLocations

Callers == {"job", "endpoint"}

\* a committed table: its rows in insertion order, the identity of each row
\* and the identity the next inserted row gets
EmptyTable == [rows |-> <<>>, ids |-> <<>>, next |-> 1]

\* the changes a session has flushed and not committed, for one location:
\* the identities of the rows it deleted and the rows it added
NoChanges == [deleted |-> {}, added |-> <<>>]

NoPending == [l \in Locations |-> NoChanges]

\* the indices of the rows of a table that the changes do not delete
Surviving(t, ch) == { i \in 1..Len(t.rows) : t.ids[i] \notin ch.deleted }

\* a committed table once the changes of a session are committed over it
Applied(t, ch) ==
    [rows |-> Filter(t.rows, Surviving(t, ch)) \o ch.added,
     ids  |-> Filter(t.ids, Surviving(t, ch))
              \o List([i \in 1..Len(ch.added) |-> t.next + i - 1]),
     next |-> t.next + Len(ch.added)]

\* Session.commit(): the committed tables
SessionCommit(tb, pending) == [l \in Locations |-> Applied(tb[l], pending[l])]

\* a handler that logs the error and leaves the session as it is
RollbackKeepsPending(pending) == pending

\* Session.rollback(): what is left of the pending changes
SessionRollback(pending) == NoPending

\* recalculate_usage, lines 31-37: the rows the delete keeps and removes
KeptRows(t, days) ==
    IF days # 0 THEN Filter(t, { i \in 1..Len(t) : t[i].date < today - days })
    ELSE <<>>

DeletedIds(t, days) ==
    { t.ids[i] : i \in { j \in 1..Len(t.rows) :
                           days = 0 \/ t.rows[j].date >= today - days } }

\* the rows of the first n closed intervals of a call
RECURSIVE RowsOfFirst(_, _)
RowsOfFirst(intervals, n) ==
    IF n = 0 THEN <<>>
    ELSE RowsOfFirst(intervals, n - 1) \o intervals[n].rows

\* recalculate_usage in a session, lines 31-86: the changes the call has
\* flushed when it returns (failAt = 0) or when it raises while it processes
\* its failAt-th interval, the open period being the last one; r is what
\* the call computes when nothing raises
Flushed(t, days, r, failAt) ==
    [deleted |-> DeletedIds(t, days),
     added |-> IF failAt = 0
               THEN SubSeq(r.usage, Len(r.kept) + 1, Len(r.usage))
               ELSE RowsOfFirst(r.intervals, failAt - 1)]

\* the intervals at which a call can raise
FailPoints(r) == IF r.no_orders THEN {} ELSE 1..(Len(r.intervals) + 1)

\* UsageNormalizer.recalculate_usage(l, days) up to the commit of line 88,
\* in the session of caller c; the commit of _clean_sensor_data (line 126)
\* commits what the session holds
Recalculate(c, l, days, fails) ==
    \E tb \in {SessionCommit(tables, sessions[c].pending)} :
    \E r \in {AfterDelete(days, days # 0, today - days,
                          CleanSensorData(readings, days # 0, today - days, today),
                          KeptRows(tb[l].rows, days), SortedOrders(orders))} :
    \E failAt \in (IF fails THEN FailPoints(r) ELSE {0}) :
        /\ readings' = r.readings
        /\ tables' = tb
        /\ sessions' = [sessions EXCEPT ![c] =
              [@ EXCEPT !.pc = IF failAt = 0 THEN "returned" ELSE "raised",
                        !.loc = l,
                        !.pending = [NoPending EXCEPT
                                       ![l] = Flushed(tb[l], days, r, failAt)],
                        !.before = [@ EXCEPT ![l] = tb[l].rows],
                        !.result = [@ EXCEPT ![l] = r.usage]]]

\* an exception that leaves the loop over the locations
AfterExceptLeaveLoop(pos) == NumLocations + 1

\* update_daily_usage_job, lines 20 and 28-30: the location the loop visits
\* after the pos-th one raised
AfterExcept(pos) == pos + 1

\* the session of a run of the job that has visited no location yet
JobStart ==
    [pc |-> "loop", pos |-> 1, loc |-> 0, pending |-> NoPending,
     outcome |-> [l \in Locations |-> "waiting"],
     before |-> [l \in Locations |-> <<>>],
     result |-> [l \in Locations |-> <<>>]]

\* the session of a caller that is not running
EndpointIdle ==
    [pc |-> "idle", pos |-> 0, loc |-> 0, pending |-> NoPending,
     outcome |-> [l \in Locations |-> "waiting"],
     before |-> [l \in Locations |-> <<>>],
     result |-> [l \in Locations |-> <<>>]]

\* update_daily_usage_job, lines 14-18: a run of the job opens its session
JobOpen ==
    /\ sessions["job"].pc \in {"idle", "closed"}
    /\ calls < MaxCalls
    /\ calls' = calls + 1
    /\ sessions' = [sessions EXCEPT !["job"] = JobStart]
    /\ UNCHANGED <<today, orders, temps, readings, usage, autoflush, last, tables>>

\* update_daily_usage_job, lines 20-25: recalculate the next location
JobRecalculate(fails) ==
    /\ sessions["job"].pc = "loop"
    /\ sessions["job"].pos <= NumLocations
    /\ Recalculate("job", sessions["job"].pos, JobDays, fails)
    /\ UNCHANGED <<today, orders, temps, usage, autoflush, calls, last>>

\* recalculate_usage, line 88, and update_daily_usage_job, line 26
JobCommit ==
    /\ sessions["job"].pc = "returned"
    /\ tables' = SessionCommit(tables, sessions["job"].pending)
    /\ sessions' = [sessions EXCEPT !["job"] =
          [@ EXCEPT !.pc = "loop",
                    !.pos = @ + 1,
                    !.pending = NoPending,
                    !.outcome = [@ EXCEPT ![sessions["job"].loc] = "committed"]]]
    /\ UNCHANGED <<today, orders, temps, readings, usage, autoflush, calls, last>>

\* update_daily_usage_job, lines 28-30: the exception is logged, the session
\* rolled back
JobExcept ==
    /\ sessions["job"].pc = "raised"
    /\ sessions' = [sessions EXCEPT !["job"] =
          [@ EXCEPT !.pc = "loop",
                    !.pos = AfterExcept(@),
                    !.pending = SessionRollback(@),
                    !.outcome = [@ EXCEPT ![sessions["job"].loc] = "rolled_back"]]]
    /\ UNCHANGED <<today, orders, temps, readings, usage, autoflush, calls, last,
                   tables>>

\* update_daily_usage_job, lines 34-35: the loop is over, the session closed
JobClose ==
    /\ sessions["job"].pc = "loop"
    /\ sessions["job"].pos > NumLocations
    /\ sessions' = [sessions EXCEPT !["job"] =
          [@ EXCEPT !.pc = "closed", !.pending = NoPending]]
    /\ UNCHANGED <<today, orders, temps, readings, usage, autoflush, calls, last,
                   tables>>

JobInit ==
    /\ today = 0
    /\ orders \in JobOrderSets
    /\ \E kinds \in [VarDays -> JobDayKinds] :
          /\ temps = [d \in VarDays |-> kinds[d].temp]
          /\ readings = DetectAnomalies(RawFrom(kinds, 0 - Cardinality(VarDays)))
    /\ usage = <<>>
    /\ autoflush \in BOOLEAN
    /\ calls = 0
    /\ last = NoCall
    /\ tables = [l \in Locations |-> EmptyTable]
    /\ sessions = [c \in Callers |-> EndpointIdle]

JobNext ==
    \/ JobOpen
    \/ \E fails \in BOOLEAN : JobRecalculate(fails)
    \/ JobCommit
    \/ JobExcept
    \/ JobClose

JobSpec == JobInit /\ [][JobNext]_vars


\* --------------------------------------------- the endpoint beside the job
\* recalculate_daily_usage, lines 357-358: a request for location l runs
\* recalculate_usage up to its commit, in the session of the request
EndpointRecalculate(l, days) ==
    /\ sessions["endpoint"].pc = "idle"
    /\ sessions["endpoint"].pos < MaxCalls
    /\ Recalculate("endpoint", l, days, FALSE)
    /\ UNCHANGED <<today, orders, temps, usage, autoflush, calls, last>>

\* recalculate_usage, line 88, then the request ends (lines 360-366)
EndpointCommit ==
    /\ sessions["endpoint"].pc = "returned"
    /\ tables' = SessionCommit(tables, sessions["endpoint"].pending)
    /\ sessions' = [sessions EXCEPT !["endpoint"] =
          [@ EXCEPT !.pc = "idle",
                    !.pos = @ + 1,
                    !.pending = NoPending,
                    !.outcome = [@ EXCEPT ![sessions["endpoint"].loc] = "committed"]]]
    /\ UNCHANGED <<today, orders, temps, readings, usage, autoflush, calls, last>>

\* the job runs in a worker thread of the scheduler (main.py, lines 33-40),
\* the endpoint in the event loop; the locations have at least one order
ConcurrentInit ==
    /\ JobInit
    /\ orders # {}

ConcurrentNext ==
    \/ JobOpen
    \/ JobRecalculate(FALSE)
    \/ JobCommit
    \/ JobClose
    \/ \E l \in Locations : \E days \in {0, JobDays} : EndpointRecalculate(l, days)
    \/ EndpointCommit

ConcurrentSpec == ConcurrentInit /\ [][ConcurrentNext]_vars


\* ----------------------------------------------------- polled readings
\* timestamp and gallons of readings, as detect_anomalies receives them
RawReadings(rs) ==
    List([i \in 1..Len(rs) |-> [ts |-> rs[i].ts, gallons |-> rs[i].gallons]])

\* add_reading, lines 199-210: the stored readings of the preceding hours
\* (and any later one) followed by the new reading
ContextOf(rs, gallons, ts) ==
    RawReadings(Filter(rs, { i \in 1..Len(rs) : rs[i].ts >= ts - ContextHours }))
    \o <<[ts |-> ts, gallons |-> gallons]>>

\* add_reading, lines 217-230: the row of the new reading, which is the last
\* of its context in timestamp order
NewReading(processed) == processed[Len(processed)]

\* TankService.add_reading(location_id, gallons, timestamp) for a timestamp
\* later than every stored one
AddReading(gallons, ts) ==
    /\ Len(readings) < MaxReadings
    /\ \A i \in 1..Len(readings) : readings[i].ts < ts
    /\ readings' = Append(readings,
                          NewReading(DetectAnomalies(ContextOf(readings, gallons, ts))))
    /\ UNCHANGED <<today, orders, temps, usage, autoflush, calls, last,
                   tables, sessions>>

\* the levels the gauge reports and the hours between two polls
PolledLevels == {200, 230, 234, 236, 239}
PollGaps == {1, 47, 49}

ReadingsInit ==
    /\ today = 0
    /\ orders = {}
    /\ temps = <<>>
    /\ readings = <<>>
    /\ usage = <<>>
    /\ autoflush = FALSE
    /\ calls = 0
    /\ last = NoCall
    /\ tables = <<>>
    /\ sessions = <<>>

ReadingsNext ==
    \E g \in PolledLevels : \E gap \in PollGaps :
        AddReading(g, IF readings = <<>> THEN 0
                      ELSE readings[Len(readings)].ts + gap)

ReadingsSpec == ReadingsInit /\ [][ReadingsNext]_vars


\* ----------------------------------------------- days of few readings
\* the readings and the temperature of one day of a gauge that reported
\* three times, five times or not at all
SparseDayKinds ==
    { [levels |-> <<>>, temp |-> NoTemp],
      [levels |-> <<100, 95, 90>>, temp |-> Cold],
      [levels |-> <<100, 95, 90, 85, 80>>, temp |-> Cold] }

SparseInit ==
    /\ today = 0
    /\ orders \in OrderSets
    /\ \E kinds \in [VarDays -> SparseDayKinds] :
          /\ temps = [d \in VarDays |-> kinds[d].temp]
          /\ readings = DetectAnomalies(RawFrom(kinds, 0 - Cardinality(VarDays)))
    /\ usage = <<>>
    /\ autoflush \in BOOLEAN
    /\ calls = 0
    /\ last = NoCall
    /\ tables = <<>>
    /\ sessions = <<>>

SparseSpec == SparseInit /\ [][Next]_vars


\* ------------------------------------------------- the k factor alone
\* the dates around the 90-day cutoff, and the sources, degree days (in
\* 1/HddUnit degree: 0, 25 and 26) and gallons of the DailyUsage rows
HistoryDates == {0 - 91, 0 - 90, 0 - 1}
HistorySources == {"sensor_adjusted", "sensor_raw", "hdd_estimated"}
HistoryHdd == {0, 50, 52}
HistoryGallons == {0, 5 * GalUnit, 12 * GalUnit}

\* the DailyUsage row of a date
HistoryRow(d, src, hdd, g) ==
    [date |-> d, gallons |-> g, is_estimated |-> (src # "sensor_adjusted"),
     source |-> src, hdd |-> hdd, raw_sensor_value |-> g,
     adjustment_reason |-> NoReason]

\* the rows of the dates of ds, by date
RECURSIVE HistoryOf(_, _)
HistoryOf(pick, ds) ==
    IF ds = {} THEN <<>>
    ELSE LET d == CHOOSE x \in ds : \A y \in ds : x <= y
         IN (IF pick[d].present
             THEN <<HistoryRow(d, pick[d].source, pick[d].hdd, pick[d].gallons)>>
             ELSE <<>>) \o HistoryOf(pick, ds \ {d})

\* a call of _get_k_factor over the table
KFactorCall ==
    /\ calls < 1
    /\ calls' = calls + 1
    /\ last' = [called |-> TRUE, k |-> GetKFactor(usage, today)]
    /\ UNCHANGED <<today, orders, temps, readings, usage, autoflush, tables,
                   sessions>>

KFactorInit ==
    /\ today = 0
    /\ orders = {}
    /\ temps = <<>>
    /\ readings = <<>>
    /\ \E pick \in [HistoryDates -> [present : BOOLEAN, source : HistorySources,
                                     hdd : HistoryHdd, gallons : HistoryGallons]] :
          usage = HistoryOf(pick, HistoryDates)
    /\ autoflush = FALSE
    /\ calls = 0
    /\ last = [called |-> FALSE, k |-> 0]
    /\ tables = <<>>
    /\ sessions = <<>>

KFactorNext == KFactorCall

KFactorSpec == KFactorInit /\ [][KFactorNext]_vars


\* ------------------------------------------ intervals of a week and more
\* the days before today that have a Temperature row, and the sets of them
\* that are cold
SeasonDays == (0 - 16)..(0 - 1)
ColdDaySets ==
    { {}, {0 - 2}, {0 - 13, 0 - 5}, {0 - 13, 0 - 12, 0 - 5, 0 - 4},
      {0 - 16, 0 - 13, 0 - 10, 0 - 8, 0 - 5, 0 - 2}, SeasonDays }

\* the deliveries: eight or three days apart, of a volume the days between
\* them can or cannot have burnt
SeasonVolumes == {24 * GalUnit, 100 * GalUnit}
SeasonOrderSets ==
    { {[start_date |-> 0 - 16, gallons |-> 24 * GalUnit],
       [start_date |-> 0 - 8, gallons |-> g],
       [start_date |-> 0, gallons |-> h]} : g, h \in SeasonVolumes }
    \cup { {[start_date |-> 0 - 3, gallons |-> 24 * GalUnit],
            [start_date |-> 0, gallons |-> g]} : g \in SeasonVolumes }

SeasonInit ==
    /\ today = 0
    /\ orders \in SeasonOrderSets
    /\ \E cold \in ColdDaySets :
          temps = [d \in SeasonDays |-> IF d \in cold THEN Cold ELSE Warm]
    /\ readings = <<>>
    /\ usage = <<>>
    /\ autoflush \in BOOLEAN
    /\ calls = 0
    /\ last = NoCall
    /\ tables = <<>>
    /\ sessions = <<>>

SeasonSpec == SeasonInit /\ [][Next]_vars


\* ------------------------------------------------ the cleaning pass alone
\* the levels a gauge reported on one day: none, three to five high and
\* scattered ones, a mean of exactly 225, a deviation of exactly 1.0, a
\* small rise that detect_anomalies flags, steady high and low levels
CleanDayLevels ==
    { <<>>, <<240, 238, 236>>, <<240, 238, 236, 234>>, <<240, 238, 236, 234, 232>>,
      <<227, 226, 225, 224, 223>>, <<231, 231, 229, 229>>, <<236, 238, 240, 250>>,
      <<230, 230, 230, 230, 230>>, <<100, 95, 90, 85, 80>> }

\* UsageNormalizer._clean_sensor_data(location_id, start_limit) as
\* recalculate_usage(location_id, days) calls it, commit included
CleanSensorDataCall(days) ==
    /\ calls < MaxCalls
    /\ calls' = calls + 1
    /\ readings' = CleanSensorData(readings, days # 0, today - days, today)
    /\ last' = [called |-> TRUE, days |-> days, before |-> readings,
                repeat |-> (last.called /\ last.days = days)]
    /\ UNCHANGED <<today, orders, temps, usage, autoflush, tables, sessions>>

CleanInit ==
    /\ today = 0
    /\ orders = {}
    /\ temps = <<>>
    /\ \E levels \in [VarDays -> CleanDayLevels] :
          readings = DetectAnomalies(
                         RawFrom([d \in VarDays |-> [levels |-> levels[d]]],
                                 0 - Cardinality(VarDays)))
    /\ usage = <<>>
    /\ autoflush = FALSE
    /\ calls = 0
    /\ last = [called |-> FALSE, days |-> 0, before |-> <<>>, repeat |-> FALSE]
    /\ tables = <<>>
    /\ sessions = <<>>

CleanNext == \E days \in Windows : CleanSensorDataCall(days)

CleanSpec == CleanInit /\ [][CleanNext]_vars


\* ------------------------------------------------- uploads beside polls
\* sorted(readings, key=timestamp), which keeps the order of equal timestamps
RECURSIVE SortedByTs(_)
SortedByTs(raw) ==
    IF raw = <<>> THEN <<>>
    ELSE LET m == CHOOSE i \in 1..Len(raw) :
                      /\ \A j \in 1..Len(raw) : raw[i].ts <= raw[j].ts
                      /\ \A j \in 1..(i - 1) : raw[j].ts # raw[i].ts
         IN <<raw[m]>> \o SortedByTs(SubSeq(raw, 1, m - 1) \o SubSeq(raw, m + 1, Len(raw)))

\* the timestamps and levels of the rows of an uploaded file, and the files
FileTimes == {0, 1}
FileLevels == {200, 234}
FileRows == [ts : FileTimes, gallons : FileLevels]
Files == { <<a>> : a \in FileRows } \cup { <<a, b>> : a, b \in FileRows }

\* no upload is going on
NoUpload == [pc |-> "idle", processed |-> <<>>, existing |-> {}]

\* upload_tank_readings and process_readings_csv up to the query of the
\* existing timestamps: the rows parsed from the file, flagged
UploadRead(file) ==
    /\ sessions.pc = "idle"
    /\ Len(readings) + Len(file) <= MaxReadings
    /\ sessions' = [pc |-> "read",
                    processed |-> DetectAnomalies(SortedByTs(file)),
                    existing |-> { readings[i].ts : i \in 1..Len(readings) }]
    /\ UNCHANGED <<today, orders, temps, readings, usage, autoflush, calls, last,
                   tables>>

\* upload_tank_readings and process_readings_csv from the insert loop to the
\* commit: every processed row whose timestamp was not stored is added
UploadInsert ==
    /\ sessions.pc = "read"
    /\ readings' = readings \o
                   Filter(sessions.processed,
                          { i \in 1..Len(sessions.processed) :
                              sessions.processed[i].ts \notin sessions.existing })
    /\ sessions' = NoUpload
    /\ UNCHANGED <<today, orders, temps, usage, autoflush, calls, last, tables>>

\* TankService.add_reading(location_id, gallons, timestamp) by the poller,
\* whose timestamp is the time of the poll: the stored row is returned when
\* the timestamp exists
PollReading(gallons, ts) ==
    /\ Len(readings) + Len(sessions.processed) < MaxReadings
    /\ \A i \in 1..Len(readings) : readings[i].ts <= ts
    /\ readings' =
           IF \E i \in 1..Len(readings) : readings[i].ts = ts THEN readings
           ELSE Append(readings,
                       NewReading(DetectAnomalies(
                           SortedByTs(ContextOf(readings, gallons, ts)))))
    /\ UNCHANGED <<today, orders, temps, usage, autoflush, calls, last,
                   tables, sessions>>

IngestInit ==
    /\ today = 0
    /\ orders = {}
    /\ temps = <<>>
    /\ readings = <<>>
    /\ usage = <<>>
    /\ autoflush = FALSE
    /\ calls = 0
    /\ last = NoCall
    /\ tables = <<>>
    /\ sessions = NoUpload

IngestNext ==
    \/ \E file \in Files : UploadRead(file)
    \/ UploadInsert
    \/ \E g \in FileLevels : \E ts \in FileTimes : PollReading(g, ts)

IngestSpec == IngestInit /\ [][IngestNext]_vars


\* ------------------------------------------ the days since the last order
\* one delivery, eight or three days ago
OpenOrderSets ==
    { {[start_date |-> 0 - 8, gallons |-> 24 * GalUnit]},
      {[start_date |-> 0 - 3, gallons |-> 24 * GalUnit]} }

\* the days before the two latest ones have no reading; they are warm, but
\* for the cold days of one of these sets
OpenColdDaySets == { {}, {0 - 5}, {0 - 5, 0 - 4, 0 - 3} }
EarlierDays == (0 - 8)..(0 - 3)

\* the readings and the temperature of one of the two latest days
OpenDayKinds ==
    DayKinds \cup { [levels |-> <<100, 98, 96, 94, 92>>, temp |-> Cold] }

OpenInit ==
    /\ today = 0
    /\ orders \in OpenOrderSets
    /\ \E kinds \in [VarDays -> OpenDayKinds] : \E cold \in OpenColdDaySets :
          /\ temps = [d \in EarlierDays \cup VarDays |->
                         IF d \in VarDays THEN kinds[d].temp
                         ELSE IF d \in cold THEN Cold ELSE Warm]
          /\ readings = DetectAnomalies(RawFrom(kinds, 0 - Cardinality(VarDays)))
    /\ usage = <<>>
    /\ autoflush \in BOOLEAN
    /\ calls = 0
    /\ last = NoCall
    /\ tables = <<>>
    /\ sessions = <<>>

OpenSpec == OpenInit /\ [][Next]_vars


\* ------------------------------------------------------- the order CRUD
\* the dates of the orders; an order is a row of oil_orders with has_end =
\* FALSE for end_date = None
OrderDays == 0..2
OrderInputs ==
    { i \in [start_date : OrderDays, has_end : BOOLEAN, end_date : OrderDays] :
        IF i.has_end THEN i.end_date >= i.start_date ELSE i.end_date = 0 }

OrderRow(id, i) ==
    [id |-> id, start_date |-> i.start_date, has_end |-> i.has_end,
     end_date |-> i.end_date]

\* check_date_overlap(db, location_id, start_date, end_date, exclude_order_id)
\* over the rows the session sees; exclude = 0 stands for None
CheckDateOverlap(rows, i, exclude) ==
    LET end == IF i.has_end THEN i.end_date ELSE i.start_date
    IN \E o \in rows :
          /\ (exclude # 0 => o.id # exclude)
          /\ o.start_date <= end
          /\ (~o.has_end \/ o.end_date >= i.start_date)

\* create_order, lines 107-115: the open orders that start before the new
\* one and that the query can return first
PreviousOpenOrders(rows, i) ==
    { o \in rows : /\ ~o.has_end
                   /\ o.start_date < i.start_date
                   /\ \A p \in rows : (~p.has_end /\ p.start_date < i.start_date)
                                         => p.start_date <= o.start_date }

\* what a request leaves behind for the observer
Outcome(op, raised, i, before) ==
    [op |-> op, raised |-> raised, input |-> i, before |-> before]

\* create_order(order)
CreateOrder(i) ==
    /\ Cardinality(orders) < MaxOrders
    /\ IF CheckDateOverlap(orders, i, 0)
       THEN /\ orders' = orders
            /\ calls' = calls
            /\ last' = Outcome("create", TRUE, i, orders)
       ELSE /\ \E prev \in (IF PreviousOpenOrders(orders, i) = {} THEN {0}
                            ELSE { o.id : o \in PreviousOpenOrders(orders, i) }) :
                 orders' = { IF o.id = prev
                             THEN [o EXCEPT !.has_end = TRUE,
                                            !.end_date = i.start_date - 1]
                             ELSE o : o \in orders }
                           \cup {OrderRow(calls + 1, i)}
            /\ calls' = calls + 1
            /\ last' = Outcome("create", FALSE, i, orders)
    /\ UNCHANGED <<today, temps, readings, usage, autoflush, tables, sessions>>

\* update_order(order_id, order_update): set says which of start_date and
\* end_date the request carries; a row that breaks check_dates is refused by
\* the database
UpdateOrder(id, set, i) ==
    /\ \E o \in orders :
          /\ o.id = id
          /\ \E n \in { [start_date |-> IF set.start THEN i.start_date ELSE o.start_date,
                         has_end |-> IF set.end THEN i.has_end ELSE o.has_end,
                         end_date |-> IF set.end THEN i.end_date ELSE o.end_date] } :
                /\ n.has_end => n.end_date >= n.start_date
                /\ IF CheckDateOverlap(orders, n, id)
                   THEN /\ orders' = orders
                        /\ last' = Outcome("update", TRUE, n, orders)
                   ELSE /\ orders' = (orders \ {o}) \cup {OrderRow(id, n)}
                        /\ last' = Outcome("update", FALSE, n, orders)
    /\ UNCHANGED <<today, temps, readings, usage, autoflush, calls, tables,
                   sessions>>

\* import_orders_csv, lines 291-329: the rows of the file from the i-th on,
\* added being the orders added so far, which the overlap query sees when
\* the session flushes before a query
RECURSIVE ImportRows(_, _, _, _)
ImportRows(rows, i, committed, added) ==
    IF i > Len(rows) THEN added
    ELSE IF CheckDateOverlap(IF autoflush THEN committed \cup added ELSE committed,
                             rows[i], 0)
         THEN ImportRows(rows, i + 1, committed, added)
         ELSE ImportRows(rows, i + 1, committed,
                         added \cup {OrderRow(calls + Cardinality(added) + 1, rows[i])})

\* import_orders_csv(location_id, file) for a file of the given rows
ImportOrdersCsv(rows) ==
    /\ Cardinality(orders) + Len(rows) <= MaxOrders
    /\ \E added \in {ImportRows(rows, 1, orders, {})} :
          /\ orders' = orders \cup added
          /\ calls' = calls + Cardinality(added)
          /\ last' = Outcome("import", added = {}, rows, orders)
    /\ UNCHANGED <<today, temps, readings, usage, autoflush, tables, sessions>>

OrdersInit ==
    /\ today = 0
    /\ orders = {}
    /\ temps = <<>>
    /\ readings = <<>>
    /\ usage = <<>>
    /\ autoflush \in BOOLEAN
    /\ calls = 0
    /\ last = Outcome("none", FALSE, <<>>, {})
    /\ tables = <<>>
    /\ sessions = <<>>

OrdersNext ==
    \/ \E i \in OrderInputs : CreateOrder(i)
    \/ \E id \in 1..MaxOrders : \E set \in [start : BOOLEAN, end : BOOLEAN] :
          \E i \in OrderInputs : UpdateOrder(id, set, i)
    \/ \E a, b \in OrderInputs : ImportOrdersCsv(<<a, b>>)

OrdersSpec == OrdersInit /\ [][OrdersNext]_vars


\* ================================================================ claims
\* the closed intervals the latest call distributed, and their days
Intervals == { last.intervals[n] : n \in 1..Len(last.intervals) }
Days(iv) == 1..Len(iv.rows)
Rows(t) == { t[i] : i \in 1..Len(t) }
RowCount(t, r) == Cardinality({ i \in 1..Len(t) : t[i] = r })
SumGallons(t) == SumSeq([i \in 1..Len(t) |-> t[i].gallons])
\* 0.01 gallon, widened by the rounding of the fixed-point figures of n days
\* (one unit of 1/GalUnit gallon a day)
Tolerance(n) == GalUnit \div 100 + n

\* C1: after any sequence of recalculate_usage calls, full or partial, the
\* DailyUsage table holds at most one row per date of the location.
C1_OneRowPerDate ==
    \A i, j \in 1..Len(usage) : usage[i].date = usage[j].date => i = j

\* the columns of the rows that the idempotence claim compares
Compared(t) ==
    { [date |-> t[i].date, gallons |-> t[i].gallons, source |-> t[i].source,
       adjustment_reason |-> t[i].adjustment_reason] : i \in 1..Len(t) }

\* C2: a second recalculate_usage(loc, days=N) with the same N and no change
\* of the readings, orders or temperatures in between leaves DailyUsage with
\* the same set of rows (same dates, gallons, source, adjustment_reason) as
\* the first call left.
C2_Idempotent ==
    (last.repeat /\ last.has_limit) => Compared(usage) = Compared(last.before)

\* C3: in every closed interval with target T in which at least one day is
\* not capped, the gallons of the rows persisted for the interval (after
\* capping, redistribution and spike smoothing) sum to T within 0.01.
C3_IntervalConservation ==
    \A iv \in Intervals :
        (\E i \in Days(iv) : ~iv.allocs[i].is_capped) =>
            Abs(SumGallons(iv.rows) - iv.target) <= Tolerance(Len(iv.rows))

\* C4: every DailyUsage row has gallons >= 0 and raw_sensor_value >= 0 (the
\* fill sentinel -1 is never persisted).
C4_NonNegative ==
    \A r \in Rows(usage) : r.gallons >= 0 /\ r.raw_sensor_value >= 0

\* C5: a day for which the day summarizer signals an intraday fill is
\* persisted with adjustment_reason = fill_event and gallons = 0, in a
\* closed interval under either strategy and in the open interval.
C5_FillDayIsZero ==
    /\ \A iv \in Intervals : \A i \in Days(iv) :
          iv.stats[i].raw_sensor < 0 =>
              /\ iv.rows[i].adjustment_reason = "fill_event"
              /\ iv.rows[i].gallons = 0
    /\ \A i \in 1..Len(last.open) :
          last.open[i].raw_sensor < 0 =>
              /\ last.open[i].adjustment_reason = "fill_event"
              /\ last.open[i].gallons = 0

\* the cap the claim states for a day of the given HDD
StatedCap(hdd) == IF hdd < 5 * HddUnit THEN 2 * GalUnit ELSE 15 * GalUnit

C6_SmoothedAboveCap ==
    \E iv \in Intervals : \E i \in Days(iv) :
        /\ iv.pre_cap[i] > StatedCap(iv.stats[i].hdd)
        /\ iv.allocs[i].spike_smoothed
        /\ iv.rows[i].gallons > StatedCap(iv.stats[i].hdd)

\* the trust band of the claim, from the day drops of the interval
InTrustBand(iv) ==
    LET drops == SumSeq([i \in 1..Len(iv.stats) |-> iv.stats[i].sensor])
    IN /\ 2 * drops > iv.target
       /\ 2 * drops < 3 * iv.target
       /\ drops > 5 * GalUnit

\* C7: a closed interval uses the sensor shape iff 0.5 < (sum of day
\* drops)/target < 1.5 and the sum of day drops > 5.0, all strict; then
\* every row of the interval has source sensor_adjusted, otherwise every
\* row has source hdd_estimated, and no interval mixes the two.
C7_StrategySelection ==
    \A iv \in Intervals : \A i \in Days(iv) :
        iv.rows[i].source =
            (IF InTrustBand(iv) THEN "sensor_adjusted" ELSE "hdd_estimated")

\* C7 witness: the latest call distributed one interval by the sensor shape
\* and one by HDD whose day drops are exactly 1.5 times its target.
C7_Witness ==
    /\ \E iv \in Intervals : Len(iv.rows) > 0 /\ InTrustBand(iv)
    /\ \E iv \in Intervals :
          /\ Len(iv.rows) > 0
          /\ 2 * iv.total = 3 * iv.target
          /\ iv.rows[1].source = "hdd_estimated"

\* the estimated load HDD * k_factor + 0.5 of a day, from the claim
StatedLoad(hdd, k) ==
    (hdd * k + (HddUnit * (KUnit \div GalUnit)) \div 2)
        \div (HddUnit * (KUnit \div GalUnit)) + GalUnit \div 2

\* C8: when the sensor is distrusted for a closed interval, each day's
\* allocation before capping is target * (HDD * k + 0.5) / (sum over the
\* interval of HDD * k + 0.5), so two days of equal HDD get equal
\* allocations whatever their sensor drops are.
C8_HddShape ==
    \A iv \in Intervals :
        ~InTrustBand(iv) =>
            LET sumLoad == SumSeq([j \in 1..Len(iv.stats) |->
                                      StatedLoad(iv.stats[j].hdd, iv.k)])
            IN /\ \A i \in Days(iv) :
                    iv.pre_cap[i] =
                        (StatedLoad(iv.stats[i].hdd, iv.k) * iv.target
                            + sumLoad \div 2) \div sumLoad
               /\ \A i, j \in Days(iv) :
                    iv.stats[i].hdd = iv.stats[j].hdd =>
                        iv.pre_cap[i] = iv.pre_cap[j]

\* C8 witness: an interval whose day drops sum to at least 3 times the
\* target was distributed by HDD, and two of its days have equal HDD and
\* different sensor drops.
C8_Witness ==
    \E iv \in Intervals :
        /\ Len(iv.rows) > 0
        /\ iv.total >= 3 * iv.target
        /\ \E i, j \in Days(iv) :
              /\ iv.stats[i].hdd = iv.stats[j].hdd
              /\ iv.stats[i].sensor # iv.stats[j].sensor
              /\ iv.pre_cap[i] = iv.pre_cap[j]
              /\ iv.pre_cap[i] > 0

\* C9: with days=N only intervals that contain a date on or after the
\* window start today - N are written; an interval that ends exactly at the
\* window start is skipped.
C9_OnlyWindowIntervals ==
    last.has_limit =>
        \A iv \in Intervals :
            Len(iv.rows) > 0 => \E i \in Days(iv) : iv.rows[i].date >= last.limit

\* C10: when the location has no orders, recalculate_usage leaves a
\* DailyUsage row for every day of the target range from the window start
\* up to yesterday.
C10_NoOrdersFallback ==
    (last.called /\ last.no_orders /\ last.has_limit) =>
        \A d \in last.limit..(today - 1) : \E r \in Rows(usage) : r.date = d


\* ------------------------------------------------------------------- C11
\* C11: the delete and the inserts of one recalculate_usage call become
\* durable together or not at all: a location whose call was committed holds
\* exactly the rows the call computed, a location whose call raised, or
\* whose call is not committed yet, holds the rows it had before the call.
C11_OneTransaction ==
    \A l \in Locations :
        /\ sessions["job"].outcome[l] = "committed"
              => tables[l].rows = sessions["job"].result[l]
        /\ sessions["job"].outcome[l] = "rolled_back"
              => tables[l].rows = sessions["job"].before[l]
        /\ (sessions["job"].pc \in {"returned", "raised"} /\ sessions["job"].loc = l)
              => tables[l].rows = sessions["job"].before[l]

\* a call raised after it had deleted rows, and a later location was committed
C11_Witness ==
    \E l, m \in Locations :
        /\ l < m
        /\ sessions["job"].outcome[l] = "rolled_back"
        /\ sessions["job"].before[l] # <<>>
        /\ sessions["job"].outcome[m] = "committed"

\* ------------------------------------------------------------------- C12
\* C12: in update_daily_usage_job a location whose recalculation raises does
\* not stop the loop: when the job closes its session every location has
\* been recalculated or rolled back, and each committed location holds the
\* rows its recalculation computed.
C12_JobContinues ==
    /\ \A l \in Locations :
          l < sessions["job"].pos => sessions["job"].outcome[l] # "waiting"
    /\ sessions["job"].pc = "closed" =>
          \A l \in Locations :
              /\ sessions["job"].outcome[l] \in {"committed", "rolled_back"}
              /\ sessions["job"].outcome[l] = "committed"
                    => tables[l].rows = sessions["job"].result[l]

\* the job is over: a location raised and a later one was committed
C12_Witness ==
    /\ sessions["job"].pc = "closed"
    /\ \E l, m \in Locations :
          /\ l < m
          /\ sessions["job"].outcome[l] = "rolled_back"
          /\ sessions["job"].outcome[m] = "committed"
          /\ tables[m].rows # <<>>

\* ------------------------------------------------------------------- C13
\* C13: two executions of recalculate_usage for the same location never
\* overlap, and no table ends with two rows of the same date.
C13_Serialized ==
    /\ ~ \E l \in Locations :
          \A c \in Callers : sessions[c].pc = "returned" /\ sessions[c].loc = l
    /\ \A l \in Locations :
          \A i, j \in 1..Len(tables[l].rows) :
              tables[l].rows[i].date = tables[l].rows[j].date => i = j

\* the overlap has left a table with two rows of one date
C13_Duplicates ==
    \E l \in Locations :
        \E i, j \in 1..Len(tables[l].rows) :
            i # j /\ tables[l].rows[i].date = tables[l].rows[j].date


\* the flags detect_anomalies gives the stored readings when it is run over
\* the whole history
WholeHistory == DetectAnomalies(RawReadings(readings))

\* the level change of the i-th reading of the history
Delta(i) == readings[i].gallons - readings[i - 1].gallons

FillsUpTo(i) == { f \in 2..i : Delta(f) > 30 }

\* the latest fill event at or before the i-th reading
LastFill(i) == CHOOSE f \in FillsUpTo(i) : \A g \in FillsUpTo(i) : g <= f

\* C15: detect_anomalies flags a reading as unstable iff the latest fill
\* event is less than 48 hours old, the level is above 85% of the capacity
\* and the level moved by more than one gallon; a reading 48 hours or more
\* after the latest fill is never flagged.
C15_PostFillUnstable ==
    \A i \in 1..Len(readings) :
        WholeHistory[i].is_post_fill_unstable <=>
            /\ FillsUpTo(i) # {}
            /\ readings[i].ts - readings[LastFill(i)].ts < 48
            /\ 100 * readings[i].gallons > 85 * 275
            /\ Abs(Delta(i)) > 1

\* a reading flagged unstable, one exactly 48 hours after the fill that is
\* not, and one flagged again after a new fill
C15_Witness ==
    /\ \E i \in 2..Len(readings) :
          WholeHistory[i].is_post_fill_unstable /\ ~WholeHistory[i].is_fill_event
    /\ \E i \in 2..Len(readings) :
          /\ FillsUpTo(i) # {}
          /\ readings[i].ts - readings[LastFill(i)].ts = 48
          /\ 100 * readings[i].gallons > 85 * 275
          /\ Abs(Delta(i)) > 1

\* ------------------------------------------------------------------- C16
\* C16: the flags add_reading stored with each polled reading are the flags
\* detect_anomalies gives that reading over the whole history.
C16_SameFlags ==
    \A i \in 1..Len(readings) : readings[i] = WholeHistory[i]

\* the number of valid readings (neither anomaly nor fill event) the table
\* holds on the calendar day
ValidReadings(day) ==
    Cardinality({ i \in 1..Len(readings) : /\ DateOf(readings[i].ts) = day
                                           /\ ~readings[i].is_anomaly
                                           /\ ~readings[i].is_fill_event })

\* C17: the day summarizer reports a day with fewer than 5 valid readings on
\* that calendar day (zero included) as unreliable with drop = 0, so that the
\* reconciler replaces the day by the HDD fallback HDD * k_factor + 0.5
\* instead of counting it as zero consumption.
C17_FewReadingsUnreliable ==
    \A iv \in Intervals : \A i \in Days(iv) :
        ValidReadings(iv.stats[i].date) < 5 =>
            /\ iv.stats[i].is_unreliable
            /\ iv.stats[i].raw_sensor = 0
            /\ iv.stats[i].sensor = StatedLoad(iv.stats[i].hdd, iv.k)

\* the rows of the last 90 days whose source is not HDD-estimated
RecentSensorRows ==
    Filter(usage, { i \in 1..Len(usage) :
                      /\ usage[i].date >= today - 90
                      /\ usage[i].source # "hdd_estimated" })

\* the k factor the claim states for rows of the given gallons and degree
\* days (in 1/HddUnit degree), in 1/KUnit gallon per degree day
StatedKFactor(sumG, sumH) ==
    IF sumH < 50 * HddUnit THEN 150000
    ELSE Min((sumG * HddUnit * (KUnit \div GalUnit) + sumH \div 2) \div sumH, 400000)

\* C18: _get_k_factor returns (sum of gallons)/(sum of HDD) over the last 90
\* days' DailyUsage rows whose source is not HDD-estimated, clamped to at
\* most 0.4, and returns the default 0.15 exactly when the cumulative HDD of
\* that history is below 50 or no such rows exist; the result always lies in
\* (0, 0.4].
C18_KFactor ==
    last.called =>
        /\ last.k = StatedKFactor(
                        SumSeq([i \in 1..Len(RecentSensorRows) |->
                                   RecentSensorRows[i].gallons]),
                        SumSeq([i \in 1..Len(RecentSensorRows) |->
                                   RecentSensorRows[i].hdd]))
        /\ last.k > 0
        /\ last.k <= 400000

\* the days of the interval that were not capped, and the excess above the
\* caps, in 1/GalUnit gallon
Uncapped(iv) == Days(iv) \ iv.capped
Excess(iv) ==
    SumSeq([i \in 1..Len(iv.rows) |->
              IF i \in iv.capped THEN iv.pre_cap[i] - StatedCap(iv.stats[i].hdd)
              ELSE 0])
SumOfCaps(iv) == SumSeq([i \in 1..Len(iv.rows) |-> StatedCap(iv.stats[i].hdd)])

\* after capping and redistribution every uncapped day has its allocation
\* plus an equal part of the excess
EqualParts(iv) ==
    \A i \in Uncapped(iv) :
        iv.post_cap[i] = iv.pre_cap[i]
                           + (2 * Excess(iv) + Cardinality(Uncapped(iv)))
                                 \div (2 * Cardinality(Uncapped(iv)))

\* C19: in _distribute_usage, when at least one day of the
\* interval is uncapped the whole excess above the caps is added in equal
\* parts to the uncapped days; when every day is capped no error is raised,
\* each day is persisted at its cap and the interval total is the sum of the
\* caps, below target_gallons.
C19_Redistribution ==
    \A iv \in Intervals :
        IF Uncapped(iv) # {} THEN EqualParts(iv)
        ELSE /\ \A i \in Days(iv) :
                   iv.rows[i].gallons = StatedCap(iv.stats[i].hdd)
             /\ SumGallons(iv.rows) = SumOfCaps(iv)
             /\ SumOfCaps(iv) < iv.target

\* the values, before smoothing, of the days within 3 days of day i, day i
\* itself left out
Window(v, i) ==
    Filter(v, { j \in 1..Len(v) : j # i /\ j >= i - 3 /\ j <= i + 3 })

\* value > max(2 * median, median + 1.5) and value > 0.5, from the claim
StatedSpike(v, i) ==
    /\ 2 * v[i] > 2 * Median2(Window(v, i))
    /\ 2 * v[i] > Median2(Window(v, i)) + 3 * GalUnit
    /\ 2 * v[i] > GalUnit

WindowMean(v, i) ==
    (2 * SumSeq(Window(v, i)) + Len(Window(v, i))) \div (2 * Len(Window(v, i)))

\* C20: _smooth_contextual_spikes leaves a series of fewer than 7 days
\* unchanged; otherwise a day is replaced by the mean of its neighbours within
\* +-3 days iff its value > max(2 * median, median + 1.5) of those neighbours
\* and its value > 0.5, the neighbours always being the values before any
\* smoothing, so the result does not depend on the order in which the days
\* are visited.
C20_Smoothing ==
    \A iv \in Intervals : \A i \in Days(iv) :
        /\ iv.allocs[i].spike_smoothed =
               (Len(iv.rows) >= 7 /\ StatedSpike(iv.post_cap, i))
        /\ iv.rows[i].gallons =
               IF Len(iv.rows) >= 7 /\ StatedSpike(iv.post_cap, i)
               THEN WindowMean(iv.post_cap, i) ELSE iv.post_cap[i]

\* C20 witness: the latest call has smoothed two days that lie in each
\* other's window and left a day of the same interval as it was, and has
\* left unchanged an interval of fewer than 7 days that holds a day above
\* the spike threshold.
C20_Witness ==
    /\ \E iv \in Intervals : \E i, j \in Days(iv) :
          /\ i < j /\ j <= i + 3
          /\ iv.allocs[i].spike_smoothed
          /\ iv.allocs[j].spike_smoothed
          /\ iv.rows[i].gallons # iv.post_cap[i]
          /\ \E n \in Days(iv) : ~iv.allocs[n].spike_smoothed
    /\ \E iv \in Intervals : \E i \in Days(iv) :
          /\ Len(iv.rows) < 7
          /\ StatedSpike(iv.post_cap, i)
          /\ iv.rows[i].gallons = iv.post_cap[i]

\* the readings of the day that the pass found not flagged as anomalies
Unflagged(rs, day) ==
    Levels(Filter(rs, { i \in 1..Len(rs) :
                          DateOf(rs[i].ts) = day /\ ~rs[i].is_anomaly }))

\* mean > 225 and standard deviation > 1.0 of whole-gallon levels
HighAndScattered(vals) ==
    /\ vals # <<>>
    /\ SumSeq(vals) > 225 * Len(vals)
    /\ Len(vals) * SumSeq([i \in 1..Len(vals) |-> vals[i] * vals[i]])
           > SumSeq(vals) * SumSeq(vals) + Len(vals) * Len(vals)

\* the days the latest pass scanned
Scanned(day) ==
    /\ day <= today
    /\ day >= (IF last.days # 0 THEN today - last.days ELSE today - 730)

\* the pass changes only is_anomaly, only to true, and marks the readings of
\* exactly the days of `marked`
CleanedBy(marked) ==
    /\ Len(readings) = Len(last.before)
    /\ \A i \in 1..Len(readings) :
          readings[i] =
              [last.before[i] EXCEPT
                  !.is_anomaly = @ \/ (DateOf(last.before[i].ts) \in marked)]
    /\ last.repeat => readings = last.before

\* the days of the readings the pass found
DaysBefore == { DateOf(last.before[i].ts) : i \in 1..Len(last.before) }

\* C21 (as stated): the pre-clean pass of recalculate_usage changes nothing
\* but is_anomaly, only from false to true, and marks every reading of a
\* calendar day in the scanned range exactly when that day's mean level > 225
\* and its standard deviation > 1.0; running the pass again on its own result
\* changes no further reading.
C21_CleanStated ==
    last.called =>
        CleanedBy({ d \in DaysBefore :
                      Scanned(d) /\ HighAndScattered(Unflagged(last.before, d)) })

\* C21 (amended): the pass changes nothing but is_anomaly, only from false to
\* true, and marks every reading of a calendar day in the scanned range
\* exactly when the day has more than 3 readings not yet flagged as anomalies
\* and their mean level > 225 and their standard deviation > 1.0; running the
\* pass again on its own result changes no further reading.
C21_CleanAmended ==
    last.called =>
        CleanedBy({ d \in DaysBefore :
                      /\ Scanned(d)
                      /\ Len(Unflagged(last.before, d)) > 3
                      /\ HighAndScattered(Unflagged(last.before, d)) })

\* C21 witness: a second pass over the same range has run, after a first one
\* that marked the readings of one day and left those of another day alone.
C21_Witness ==
    /\ last.called
    /\ last.repeat
    /\ \E i \in 1..Len(readings) :
          /\ readings[i].is_anomaly
          /\ Len(Unflagged(readings, DateOf(readings[i].ts))) = 0
          /\ readings[i].gallons = 240
    /\ \E i \in 1..Len(readings) : ~readings[i].is_anomaly

\* C22: after any sequence of tank-reading CSV uploads and add_reading calls
\* for a location, no two stored TankReading rows share the same
\* (location_id, timestamp), including when one uploaded file contains the
\* same timestamp twice and when two ingestions of the same timestamp
\* interleave.
C22_UniqueTimestamps ==
    \A i, j \in 1..Len(readings) : readings[i].ts = readings[j].ts => i = j

\* the days of the open interval of the latest call
OpenDays == 1..Len(last.open)

\* the day's own sensor drop (none on a fill day), or HDD * k_factor + 0.5
\* when the day is unreliable
OwnUsage(a) ==
    IF a.is_estimated THEN StatedLoad(a.hdd, a.k)
    ELSE IF a.raw_sensor < 0 THEN 0 ELSE a.raw_sensor

SourceIsRawOrEstimated(a) ==
    /\ a.source \in {"sensor_raw", "hdd_estimated"}
    /\ (a.source = "hdd_estimated") = a.is_estimated

\* C23 (as stated): in the open interval from the last order's start_date to
\* today, each persisted day's gallons is that day's own sensor drop, or
\* HDD * k_factor + 0.5 when the day is unreliable, with no scaling against a
\* total; its source is sensor_raw or hdd_estimated respectively and never
\* sensor_adjusted.
C23_OpenUnscaled ==
    \A i \in OpenDays :
        /\ last.open[i].gallons = OwnUsage(last.open[i])
        /\ SourceIsRawOrEstimated(last.open[i])

\* C23 (amended): in the open interval each persisted day's gallons is that
\* day's own sensor drop, or HDD * k_factor + 0.5 when the day is unreliable,
\* limited to the daily cap (2.0 when HDD < 5, else 15.0) and with no scaling
\* against a total, unless the spike smoother replaces the value afterwards;
\* its source is sensor_raw or hdd_estimated respectively and never
\* sensor_adjusted.
C23_OpenCapped ==
    \A i \in OpenDays :
        /\ ~last.open[i].spike_smoothed =>
               last.open[i].gallons =
                   Min(OwnUsage(last.open[i]), StatedCap(last.open[i].hdd))
        /\ SourceIsRawOrEstimated(last.open[i])

\* C23 witness: the open interval of the latest call holds a day persisted at
\* its sensor drop, an unreliable cold day estimated under a k factor learnt
\* from the history and not smoothed, a day limited to its cap and a
\* smoothed day.
C23_Witness ==
    /\ \E i \in OpenDays :
          /\ ~last.open[i].is_estimated
          /\ last.open[i].raw_sensor > 0
          /\ last.open[i].gallons = last.open[i].raw_sensor
    /\ \E i \in OpenDays :
          /\ last.open[i].is_estimated
          /\ last.open[i].k # 150000
          /\ last.open[i].hdd > 0
          /\ ~last.open[i].spike_smoothed
    /\ \E i \in OpenDays :
          /\ ~last.open[i].spike_smoothed
          /\ OwnUsage(last.open[i]) > StatedCap(last.open[i].hdd)
    /\ \E i \in OpenDays : last.open[i].spike_smoothed

\* two orders whose date ranges share a day, an order without end_date
\* extending indefinitely
Overlapping(o, p) ==
    /\ (p.has_end => o.start_date <= p.end_date)
    /\ (o.has_end => p.start_date <= o.end_date)

\* C24: after any sequence of create_order, update_order and
\* import_orders_csv calls, no two orders of one location have overlapping
\* date ranges, an order without end_date counting as extending indefinitely;
\* hence at most one order per location is open and it is the one with the
\* latest start_date.
C24_NoOverlap ==
    /\ \A o, p \in orders : o.id # p.id => ~Overlapping(o, p)
    /\ \A o \in orders :
          ~o.has_end => \A p \in orders : p.id # o.id =>
                            (p.has_end /\ p.start_date < o.start_date)

\* C25: create_order for a location that has an open order (no end_date)
\* starting before the new order's start_date succeeds and sets that open
\* order's end_date to the new start_date minus one day.
C25_ClosesOpenOrder ==
    last.op = "create" =>
        \A o \in last.before :
            (~o.has_end /\ o.start_date < last.input.start_date) =>
                /\ ~last.raised
                /\ \E p \in orders : /\ p.id = o.id
                                     /\ p.has_end
                                     /\ p.end_date = last.input.start_date - 1

\* ------------------------------------------- the whole range of days
\* Up to four deliveries on or before today, and days of frost among the
\* warm ones: a temperature of zero degrees, or one below.
RangeDates == {0 - 6, 0 - 3, 0 - 1, 0}
RangeDays == (0 - 6)..(0 - 1)
RangeOrderSets ==
    { { [start_date |-> d, gallons |-> 24 * GalUnit] : d \in ds } :
        ds \in SUBSET RangeDates }

ZeroLow == [present |-> TRUE, high |-> 10, low |-> 0]
ZeroHigh == [present |-> TRUE, high |-> 0, low |-> 0 - 10]
FrostKinds == {ZeroLow, ZeroHigh, Cold}
FrostDaySets == { {0 - 2}, {0 - 5, 0 - 2}, {0 - 5, 0 - 4, 0 - 1} }

RangeInit ==
    /\ today = 0
    /\ orders \in RangeOrderSets
    /\ \E t \in FrostKinds : \E frost \in FrostDaySets :
          temps = [d \in RangeDays |-> IF d \in frost THEN t ELSE Warm]
    /\ readings = <<>>
    /\ usage = <<>>
    /\ autoflush \in BOOLEAN
    /\ calls = 0
    /\ last = NoCall
    /\ tables = <<>>
    /\ sessions = <<>>

RangeSpec == RangeInit /\ [][Next]_vars

\* ------------------------------------------ the rows of every location
\* tables holds the rows of OilOrder, TankReading and DailyUsage of all the
\* locations, each with its location_id; the Temperature rows of the
\* locations hold the same values, those of temps.
Tagged(l, rows) ==
    List([i \in 1..Len(rows) |-> [location_id |-> l, row |-> rows[i]]])

\* a query filtered by location_id: the rows, in the order of the table
OfLocation(table, l) ==
    LET own == Filter(table, { i \in 1..Len(table) : table[i].location_id = l })
    IN List([j \in 1..Len(own) |-> own[j].row])

\* the orders of a location
OrdersOfLocation(os, l) ==
    { [start_date |-> o.start_date, gallons |-> o.gallons] :
        o \in { p \in os : p.location_id = l } }

\* the delete without the filter on the location
DeletedRowsOfEveryLocation(table, l, hasLimit, limit) ==
    { i \in 1..Len(table) : ~hasLimit \/ table[i].row.date >= limit }

\* recalculate_usage, lines 31-37: the DailyUsage rows the delete removes
DeletedRows(table, l, hasLimit, limit) ==
    { i \in 1..Len(table) :
        /\ table[i].location_id = l
        /\ ~hasLimit \/ table[i].row.date >= limit }

\* _clean_sensor_data, lines 104-126: the rows the query returned carry the
\* flags of the cleaned readings
WithFlags(table, l, cleaned) ==
    List([i \in 1..Len(table) |->
          IF table[i].location_id = l
          THEN [table[i] EXCEPT !.row =
                  cleaned[Cardinality({ j \in 1..i : table[j].location_id = l })]]
          ELSE table[i]])

\* recalculate_usage(l, days) over the tables: r is what the call computes
\* from the rows of the location
Recalculated(tb, l, days, r) ==
    [orders |-> tb.orders,
     readings |-> WithFlags(tb.readings, l, r.readings),
     usage |-> Filter(tb.usage,
                      (1..Len(tb.usage)) \
                          DeletedRows(tb.usage, l, days # 0, today - days))
               \o Tagged(l, SubSeq(r.usage, Len(r.kept) + 1, Len(r.usage)))]

RecalculateLocation(l, days) ==
    /\ calls < MaxCalls
    /\ \E r \in {AfterDelete(days, days # 0, today - days,
                             CleanSensorData(OfLocation(tables.readings, l),
                                             days # 0, today - days, today),
                             KeptRows(OfLocation(tables.usage, l), days),
                             SortedOrders(OrdersOfLocation(tables.orders, l)))} :
          tables' = Recalculated(tables, l, days, r)
    /\ last' = [called |-> TRUE, location_id |-> l, days |-> days,
                before |-> tables, temps |-> temps]
    /\ calls' = calls + 1
    /\ UNCHANGED <<today, orders, temps, readings, usage, autoflush, sessions>>

\* what the tank of a location has read over the two latest days
LevelProfiles ==
    { [d \in VarDays |-> [levels |-> <<100, 95, 90, 85, 80>>, temp |-> Cold]],
      [d \in VarDays |-> [levels |-> <<240, 238, 236, 234, 232>>, temp |-> Cold]] }

\* the orders of a location
LocationOrderSets ==
    { {[start_date |-> 0 - 1, gallons |-> 12 * GalUnit]},
      {[start_date |-> 0 - 1, gallons |-> 12 * GalUnit],
       [start_date |-> 0, gallons |-> 24 * GalUnit]} }

RECURSIVE ReadingsUpTo(_, _)
ReadingsUpTo(profile, l) ==
    IF l = 0 THEN <<>>
    ELSE ReadingsUpTo(profile, l - 1)
         \o Tagged(l, DetectAnomalies(RawFrom(profile[l], 0 - Cardinality(VarDays))))

LocationsInit ==
    /\ today = 0
    /\ orders = {}
    /\ temps = [d \in VarDays |-> Cold]
    /\ readings = <<>>
    /\ usage = <<>>
    /\ autoflush \in BOOLEAN
    /\ calls = 0
    /\ last = [called |-> FALSE, location_id |-> 0, days |-> 0,
               before |-> <<>>, temps |-> <<>>]
    /\ \E os \in [Locations -> LocationOrderSets] :
       \E profile \in [Locations -> LevelProfiles] :
          tables = [orders |-> UNION { { [location_id |-> l,
                                          start_date |-> o.start_date,
                                          gallons |-> o.gallons] : o \in os[l] } :
                                       l \in Locations },
                    readings |-> ReadingsUpTo(profile, NumLocations),
                    usage |-> <<>>]
    /\ sessions = <<>>

LocationsNext ==
    \E l \in Locations : \E days \in {0, 1} : RecalculateLocation(l, days)

LocationsSpec == LocationsInit /\ [][LocationsNext]_vars

\* ------------------------------------------------ the worker's scheduler
\* tables holds the ScrapeConfig rows, sessions the worker: the ids of the
\* jobs in its scheduler and whether its main loop is still running; calls
\* is the id sequence of scrape_configs.

MaxConfigs == 3

JobId(id) == <<"scrape", id>>

ConfigRow(id, enabled) == [id |-> id, enabled |-> enabled, next_run |-> FALSE]

EnabledJobIds(configs) == {JobId(c.id) : c \in {d \in configs : d.enabled}}

SchedulerOutcome(op, raised) == [op |-> op, raised |-> raised]

\* setup_scheduler adds one job per enabled config, main starts the loop.
SetupScheduler(configs) == [jobs |-> EnabledJobIds(configs), running |-> TRUE]

create_scrape_config(enabled) ==
    /\ calls < MaxConfigs
    /\ calls' = calls + 1
    /\ tables' = tables \cup {ConfigRow(calls + 1, enabled)}
    /\ last' = SchedulerOutcome("create", FALSE)
    /\ UNCHANGED <<today, orders, temps, readings, usage, autoflush, sessions>>

update_scrape_config(config_id, enabled) ==
    /\ \E c \in tables : c.id = config_id
    /\ tables' = {IF c.id = config_id THEN [c EXCEPT !.enabled = enabled]
                                      ELSE c : c \in tables}
    /\ last' = SchedulerOutcome("update", FALSE)
    /\ UNCHANGED <<today, orders, temps, readings, usage, autoflush, calls,
                   sessions>>

delete_scrape_config(config_id) ==
    /\ \E c \in tables : c.id = config_id
    /\ tables' = {c \in tables : c.id # config_id}
    /\ last' = SchedulerOutcome("delete", FALSE)
    /\ UNCHANGED <<today, orders, temps, readings, usage, autoflush, calls,
                   sessions>>

\* The configs whose branch "not enabled, job_id in existing_job_ids" calls
\* remove_job on a job the first loop has already removed: the scheduler
\* raises JobLookupError for a job id it does not hold.
RemovedTwice(configs, existing_job_ids) ==
    {c \in configs : ~c.enabled /\ JobId(c.id) \in existing_job_ids}

\* One pass of the loop of main: refresh_scheduler after the sleep.  The
\* query has no ORDER BY, so the enabled configs that were added before the
\* raising one are any subset; without the commit the next_run values are
\* not stored, and the exception leaves the while loop of main.
refresh_scheduler ==
    /\ sessions.running
    /\ LET existing_job_ids == sessions.jobs
           config_job_ids == EnabledJobIds(tables)
           kept == existing_job_ids \cap config_job_ids
       IN  IF RemovedTwice(tables, existing_job_ids) = {}
           THEN /\ sessions' = [jobs |-> kept \cup config_job_ids,
                                running |-> TRUE]
                /\ tables' = {[c EXCEPT !.next_run = c.enabled] : c \in tables}
                /\ last' = SchedulerOutcome("refresh", FALSE)
           ELSE /\ \E done \in SUBSET {c \in tables : c.enabled} :
                      sessions' = [jobs |-> kept \cup {JobId(c.id) : c \in done},
                                   running |-> FALSE]
                /\ tables' = tables
                /\ last' = SchedulerOutcome("refresh", TRUE)
    /\ UNCHANGED <<today, orders, temps, readings, usage, autoflush, calls>>

SchedulerInit ==
    /\ today = 0
    /\ orders = {}
    /\ temps = <<>>
    /\ readings = <<>>
    /\ usage = <<>>
    /\ autoflush = TRUE
    /\ calls = 0
    /\ last = SchedulerOutcome("none", FALSE)
    /\ tables = {}
    /\ sessions = SetupScheduler({})

SchedulerNext ==
    \/ \E enabled \in BOOLEAN : create_scrape_config(enabled)
    \/ \E id \in 1..MaxConfigs : \E enabled \in BOOLEAN :
          update_scrape_config(id, enabled)
    \/ \E id \in 1..MaxConfigs : delete_scrape_config(id)
    \/ refresh_scheduler

SchedulerSpec == SchedulerInit /\ [][SchedulerNext]_vars

\* C26: refresh_scheduler never raises, so the loop of main keeps running,
\* and right after a refresh the scheduled job ids are exactly scrape_<id>
\* of the enabled configs, also when a config that has a job was disabled
\* or deleted since the last refresh.
C26_RefreshCompletes ==
    /\ sessions.running
    /\ last.op = "refresh" =>
          /\ ~last.raised
          /\ sessions.jobs = EnabledJobIds(tables)

\* C27: every DailyUsage row written by recalculate_usage has one of the
\* three sources and is flagged estimated exactly when its source is
\* hdd_estimated, in the closed intervals and in the open interval alike.
Sources == {"sensor_raw", "sensor_adjusted", "hdd_estimated"}

C27_SourceAndFlag ==
    \A i \in 1..Len(usage) :
        /\ usage[i].source \in Sources
        /\ usage[i].is_estimated <=> (usage[i].source = "hdd_estimated")

\* a recalculation has written rows of all three sources, over a closed
\* interval and over the open one
C27_Witness ==
    /\ last.called
    /\ last.intervals # <<>>
    /\ last.open # <<>>
    /\ \A s \in Sources : \E i \in 1..Len(usage) : usage[i].source = s

\* C28: after a full recalculation for a location with orders (of pairwise
\* distinct start dates, none after today) DailyUsage has exactly one row
\* for each date from 30 days before the first order up to but excluding
\* today, and no row outside that range.
FirstStart == CHOOSE d \in {o.start_date : o \in orders} :
                  \A o \in orders : d <= o.start_date

RowsOf(d) == { i \in 1..Len(usage) : usage[i].date = d }

C28_OneRowPerDay ==
    (last.called /\ last.days = 0 /\ orders # {}) =>
        /\ \A d \in (FirstStart - 30)..(today - 1) : Cardinality(RowsOf(d)) = 1
        /\ \A i \in 1..Len(usage) :
              usage[i].date \in (FirstStart - 30)..(today - 1)

\* a full recalculation over the bootstrap interval, two intervals between
\* orders and an open interval of some days
C28_Witness ==
    /\ last.called /\ last.days = 0
    /\ Len(last.intervals) >= 3
    /\ Len(last.open) >= 1
    /\ Len(usage) = today - (FirstStart - 30)

\* C30: the hdd stored for a day with a recorded low and high is
\* max(0, 65 - (low + high)/2), in a closed interval and in the open one,
\* also when a recorded temperature is 0; it is 0 for a day without record.
StatedHdd(t) ==
    IF t.present
    THEN (IF 65 * HddUnit - (t.low + t.high) > 0
          THEN 65 * HddUnit - (t.low + t.high) ELSE 0)
    ELSE 0

C30_StoredHdd ==
    \A i \in 1..Len(usage) : usage[i].hdd = StatedHdd(TempOf(temps, usage[i].date))

\* C29: recalculate_usage(location_id) deletes and inserts only DailyUsage
\* rows of that location and flags only TankReading rows of that location;
\* the DailyUsage and TankReading rows of every other location, and all
\* orders and temperatures, are unchanged.
RowsOfOthers(table, l) ==
    Filter(table, { i \in 1..Len(table) : table[i].location_id # l })

C29_OtherLocationsUnchanged ==
    last.called =>
        /\ RowsOfOthers(tables.usage, last.location_id)
              = RowsOfOthers(last.before.usage, last.location_id)
        /\ RowsOfOthers(tables.readings, last.location_id)
              = RowsOfOthers(last.before.readings, last.location_id)
        /\ tables.orders = last.before.orders
        /\ temps = last.temps

\* a call that has replaced rows and flagged readings of its location
\* while another location had rows and readings of its own
C29_Witness ==
    /\ last.called
    /\ RowsOfOthers(last.before.usage, last.location_id) # <<>>
    /\ RowsOfOthers(last.before.readings, last.location_id) # <<>>
    /\ OfLocation(tables.usage, last.location_id) # <<>>
    /\ OfLocation(tables.readings, last.location_id)
          # OfLocation(last.before.readings, last.location_id)
====
